---- MODULE Spec2Model ----
(***************************************************************************)
(* A model of scrape_sources.py: the text normalizer, the URL predicates   *)
(* of the source adapters, the adapter parsers, the offline summarizer,    *)
(* scrape_one and the batch driver scrape_all.                             *)
(*                                                                         *)
(* A Python str is a sequence of characters; a character is a TLA+ string  *)
(* naming it ("a", " ", "uFFFD", ...).  A URL is a sequence of segments    *)
(* (see the URL section).                                                  *)
(***************************************************************************)
EXTENDS Integers, Sequences, FiniteSets, TLC

VARIABLES
    pc,        \* position of the function or of the batch loop under check
    arg,       \* arguments of the function under check
    ret,       \* what it returned (or raised)
    urls,      \* scrape_all: the input list
    idx,       \* scrape_all: number of URLs the for loop has consumed
    results,   \* scrape_all: results
    errors,    \* scrape_all: errors
    sleeps,    \* scrape_all: number of time.sleep(DEFAULT_SLEEP) calls made
    SESSION,   \* the module global _SESSION ("None" or "session")
    NLP,       \* the module global _NLP ("None" or "model")
    inits      \* history: how many times requests.Session() and spacy.load
               \* have been called since the module was imported

vars == <<pc, arg, ret, urls, idx, results, errors, sleeps, SESSION, NLP, inits>>

(***************************************************************************)
(* Characters                                                              *)
(***************************************************************************)
SP   == " "
NL   == "\n"
NBSP == "u00A0"      \* non-breaking space
REPL == "uFFFD"      \* the replacement character
NEL  == "u0085"      \* next line: whitespace for str.strip and for \s
ACIRC == "u00C2"     \* cp1252 byte C2
ELLIP == "u2026"     \* cp1252 byte 85
CJK  == "u4E2D"      \* a character cp1252 cannot encode
DASH == "u2014"      \* em dash (cp1252 byte 97)
IDIAE == "u00EF"     \* cp1252 byte EF
IQUEST == "u00BF"    \* cp1252 byte BF
HALF == "u00BD"      \* cp1252 byte BD

\* What Python's \s and str.strip() treat as whitespace, among the characters
\* of the model.
WhiteSpace == {SP, NL, NBSP, NEL}

Range(s) == {s[i] : i \in 1..Len(s)}

\* The list with the elements f[1], ..., f[n], each computed once (a Python
\* list holds its elements; it does not recompute them when read).
List(f) == SelectSeq(f, LAMBDA x : TRUE)

\* F(v), with v computed once and then named (a local variable of the code).
Bind(v, F(_)) == CHOOSE r \in {F(x) : x \in {v}} : TRUE

\* sep.join(parts)
RECURSIVE Join(_, _)
Join(sep, parts) ==
    IF parts = <<>> THEN <<>>
    ELSE IF Len(parts) = 1 THEN parts[1]
    ELSE LET h == Len(parts) \div 2
         IN  Join(sep, SubSeq(parts, 1, h)) \o sep
                 \o Join(sep, SubSeq(parts, h + 1, Len(parts)))

\* s.lstrip(chars), s.rstrip(chars), s.strip(chars)
RECURSIVE LStrip(_, _)
LStrip(s, chars) ==
    IF s # <<>> /\ Head(s) \in chars THEN LStrip(Tail(s), chars) ELSE s

RECURSIVE RStrip(_, _)
RStrip(s, chars) ==
    IF s # <<>> /\ s[Len(s)] \in chars
    THEN RStrip(SubSeq(s, 1, Len(s) - 1), chars) ELSE s

Strip(s, chars) == RStrip(LStrip(s, chars), chars)

(***************************************************************************)
(* Encoding cleanup helpers                                                *)
(***************************************************************************)
\* re.sub(r"\s+", " ", s): every maximal run of whitespace becomes one space
\* (the first character of the run is kept, as a space).
CollapseWs(s) ==
    LET keep == SelectSeq([i \in 1..Len(s) |-> i],
                          LAMBDA i : s[i] \notin WhiteSpace \/ i = 1
                                     \/ s[i - 1] \notin WhiteSpace)
    IN  [k \in 1..Len(keep) |-> IF s[keep[k]] \in WhiteSpace THEN SP ELSE s[keep[k]]]

\* _clean_text: nbsp to space, collapse whitespace, strip.
CleanText(s) ==
    LET s1 == [i \in 1..Len(s) |-> IF s[i] = NBSP THEN SP ELSE s[i]]
    IN  Strip(CollapseWs(s1), WhiteSpace)

\* cp1252 is a single-byte encoding: the byte of one character, "none" when
\* cp1252 has no code for it.  An ASCII character is its own byte.
Cp1252Byte(c) ==
    CASE c = ACIRC  -> "xC2"
      [] c = ELLIP  -> "x85"
      [] c = NBSP   -> "xA0"
      [] c = DASH   -> "x97"
      [] c = IDIAE  -> "xEF"
      [] c = IQUEST -> "xBF"
      [] c = HALF   -> "xBD"
      [] c = "u00E2" -> "xE2"
      [] c \in {REPL, NEL, CJK, "u0097", "uF000"} -> "none"
      [] OTHER -> c

\* str.encode("cp1252", errors="ignore")
EncodeCp1252Ignore(s) ==
    SelectSeq([i \in 1..Len(s) |-> Cp1252Byte(s[i])], LAMBDA b : b # "none")

\* UTF-8 continuation bytes and lead bytes among the bytes above.
ContBytes == {"x85", "xA0", "x97", "xBF", "xBD"}
LeadBytes == {"xC2", "xEF", "xE2"}

\* The character a complete UTF-8 sequence decodes to.
Utf8Char2(c1) ==
    CASE c1 = "x85" -> NEL
      [] c1 = "xA0" -> NBSP
      [] c1 = "x97" -> "u0097"
      [] c1 = "xBF" -> IQUEST
      [] c1 = "xBD" -> HALF

Utf8Char3(c1, c2) ==
    IF c1 = "xBF" /\ c2 = "xBD" THEN REPL ELSE "uF000"

\* bytes.decode("utf-8", errors="ignore"): a lead byte followed by all its
\* continuation bytes gives one character; a lead byte without them and a
\* continuation byte outside a sequence are dropped; an ASCII byte is itself.
\* (E2 starts the three-byte sequences for U+2000..U+2FFF, EF those for
\* U+F000..U+FFFF, EF BF BD being the replacement character.)
DecodeUtf8Ignore(b) ==
    LET n == Len(b)
        Out(i) ==
            CASE b[i] = "xC2" ->
                   IF i + 1 <= n /\ b[i + 1] \in ContBytes
                   THEN Utf8Char2(b[i + 1]) ELSE "none"
              [] b[i] = "xEF" ->
                   IF i + 2 <= n /\ b[i + 1] \in ContBytes /\ b[i + 2] \in ContBytes
                   THEN Utf8Char3(b[i + 1], b[i + 2]) ELSE "none"
              [] b[i] = "xE2" ->
                   IF i + 2 <= n /\ b[i + 1] \in ContBytes /\ b[i + 2] \in ContBytes
                   THEN "u2xxx" ELSE "none"
              [] b[i] \in ContBytes -> "none"
              [] OTHER -> b[i]
    IN  SelectSeq([i \in 1..n |-> Out(i)], LAMBDA c : c # "none")

\* _fix_mojibake
FixMojibake(s) ==
    IF s = <<>> THEN s
    ELSE IF REPL \in Range(s)
         THEN DecodeUtf8Ignore(EncodeCp1252Ignore(s))
         ELSE s

\* The normalizer as the code applies it: _fix_mojibake(_clean_text(x)).
Normalize(x) == FixMojibake(CleanText(x))

\* Whitespace-normalized text: spaces are the only whitespace, never two in a
\* row, none at either end.
IsNormalized(s) ==
    /\ \A i \in 1..Len(s) : s[i] \in WhiteSpace => s[i] = SP
    /\ \A i \in 1..(Len(s) - 1) : ~(s[i] = SP /\ s[i + 1] = SP)
    /\ s # <<>> => (s[1] # SP /\ s[Len(s)] # SP)

(***************************************************************************)
(* Bounded sets of strings                                                 *)
(***************************************************************************)
RECURSIVE SeqsUpTo(_, _)
SeqsUpTo(S, n) ==
    IF n = 0 THEN {<<>>}
    ELSE LET shorter == SeqsUpTo(S, n - 1)
         IN  shorter \cup {Append(s, c) : s \in shorter, c \in S}

MaxNormLen == 4
NormChars == {"a", SP, NL, NBSP, REPL, ACIRC, ELLIP, CJK}

Idle == [fn |-> "none"]

BatchIdle ==
    /\ urls = <<>> /\ idx = 0 /\ results = <<>> /\ errors = <<>> /\ sleeps = 0
    /\ SESSION = "None" /\ NLP = "None"
    /\ inits = [sessions |-> 0, loads |-> 0]

(***************************************************************************)
(* SpecNorm: the normalizer applied to a text, then to its own output      *)
(***************************************************************************)
InitNorm ==
    /\ pc = "norm"
    /\ arg \in {[fn |-> "normalize", x |-> x] : x \in SeqsUpTo(NormChars, MaxNormLen)}
    /\ ret = Idle
    /\ BatchIdle

NormalizeOnce ==
    /\ pc = "norm"
    /\ pc' = "norm1"
    /\ ret' = [fn |-> "normalize", once |-> Normalize(arg.x), twice |-> <<>>]
    /\ UNCHANGED <<arg, urls, idx, results, errors, sleeps, SESSION, NLP, inits>>

NormalizeTwice ==
    /\ pc = "norm1"
    /\ pc' = "norm2"
    /\ ret' = [ret EXCEPT !.twice = Normalize(ret.once)]
    /\ UNCHANGED <<arg, urls, idx, results, errors, sleeps, SESSION, NLP, inits>>

NextNorm == NormalizeOnce \/ NormalizeTwice

SpecNorm == InitNorm /\ [][NextNorm]_vars

\* C4: the normalizer is idempotent: normalizing an already normalized text
\* changes nothing.
C4_NormalizeIdempotent ==
    pc = "norm2" => ret.twice = ret.once

(***************************************************************************)
(* URLs and source detection                                               *)
(*                                                                         *)
(* A URL is a sequence of segments, each a piece of URL text; the URL is   *)
(* their concatenation.  The literals the predicates test are sequences of *)
(* the same segments, so "x in u" is a contiguous-subsequence test and     *)
(* "==" is equality of sequences.                                          *)
(***************************************************************************)
UrlSegs ==
    {"https://www.", "cbp.gov", "CBP.GOV",
     "/trade/automated/cargo-systems-messaging-service", "/documents-library",
     "whitehouse.gov", "/fact-sheets", "federalregister.gov",
     "/documents/search", "document-search", "/"}

\* str.lower(), one segment
LowerSeg(g) == IF g = "CBP.GOV" THEN "cbp.gov" ELSE g

\* (url or "").lower()
Lower(u) == [i \in 1..Len(u) |-> LowerSeg(u[i])]

\* pat in u
Contains(u, pat) ==
    \E i \in 1..(Len(u) - Len(pat) + 1) : SubSeq(u, i, i + Len(pat) - 1) = pat

CsmsUrl == <<"https://www.", "cbp.gov", "/trade/automated/cargo-systems-messaging-service">>
FactSheetsUrl == <<"https://www.", "whitehouse.gov", "/fact-sheets">>
DocLibUrl == <<"https://www.", "cbp.gov", "/documents-library">>

\* _is_cbp_csms
IsCbpCsms(url) ==
    Contains(Lower(url), <<"cbp.gov", "/trade/automated/cargo-systems-messaging-service">>)

\* _is_whitehouse_fact_sheets
IsWhitehouseFactSheets(url) ==
    RStrip(Lower(url), {"/"}) = FactSheetsUrl

\* A predicate that tests containment where the code tests equality.
IsCbpDocumentsLibrary_Substring(url) ==
    Contains(Lower(url), <<"cbp.gov", "/documents-library">>)

\* _is_cbp_documents_library
IsCbpDocumentsLibrary(url) ==
    RStrip(Lower(url), {"/"}) = DocLibUrl

\* _is_federalregister_search
IsFederalregisterSearch(url) ==
    LET u == Lower(url)
    IN  /\ Contains(u, <<"federalregister.gov">>)
        /\ (Contains(u, <<"/documents/search">>) \/ Contains(u, <<"document-search">>))

\* The four predicates on one URL.
Predicates(url) ==
    [csms   |-> IsCbpCsms(url),
     wh     |-> IsWhitehouseFactSheets(url),
     doclib |-> IsCbpDocumentsLibrary(url),
     fr     |-> IsFederalregisterSearch(url)]

(***************************************************************************)
(* SpecPred: the four predicates on every URL of up to MaxUrlLen segments  *)
(***************************************************************************)
MaxUrlLen == 4

InitPred ==
    /\ pc = "pred"
    /\ arg \in {[fn |-> "predicates", url |-> u] : u \in SeqsUpTo(UrlSegs, MaxUrlLen)}
    /\ ret = Idle
    /\ BatchIdle

EvalPredicates ==
    /\ pc = "pred"
    /\ pc' = "pred_done"
    /\ ret' = Predicates(arg.url)
    /\ UNCHANGED <<arg, urls, idx, results, errors, sleeps, SESSION, NLP, inits>>

NextPred == EvalPredicates

SpecPred == InitPred /\ [][NextPred]_vars

NumTrue(r) ==
    Cardinality({k \in {"csms", "wh", "doclib", "fr"} : r[k]})

\* C8 as stated: for every URL at most one of the four predicates is true.
C8_AtMostOnePredicate ==
    pc = "pred_done" => NumTrue(ret) <= 1

\* C8 as amended: the fact-sheet predicate and the document-library predicate
\* each exclude the other three, so two predicates are true of one URL only
\* when they are the messaging-service and the federal-register predicates
\* (both substring tests).
C8_OnlyCsmsAndFrOverlap ==
    pc = "pred_done" =>
        /\ ret.wh => ~ret.csms /\ ~ret.doclib /\ ~ret.fr
        /\ ret.doclib => ~ret.csms /\ ~ret.wh /\ ~ret.fr
        /\ NumTrue(ret) <= 2

\* The document-library predicate true of a URL that is not the literal itself
\* (a trailing slash, upper case), and no other predicate true of it.
C8_Witness ==
    /\ pc = "pred_done"
    /\ ret.doclib
    /\ arg.url # DocLibUrl
    /\ NumTrue(ret) = 1

(***************************************************************************)
(* Text helpers of the offline analysis                                    *)
(***************************************************************************)
UpperLetters == <<"A", "B", "C", "D", "E", "F", "G", "H", "I", "J", "K", "L", "M",
                  "N", "O", "P", "Q", "R", "S", "T", "U", "V", "W", "X", "Y", "Z">>
LowerLetters == <<"a", "b", "c", "d", "e", "f", "g", "h", "i", "j", "k", "l", "m",
                  "n", "o", "p", "q", "r", "s", "t", "u", "v", "w", "x", "y", "z">>
Letters == Range(UpperLetters) \cup Range(LowerLetters)
Digits == {"0", "1", "2", "3", "4", "5", "6", "7", "8", "9"}

\* str.lower(), one character
LowerChar(c) ==
    IF c \in Range(UpperLetters)
    THEN LowerLetters[CHOOSE i \in 1..26 : UpperLetters[i] = c]
    ELSE IF c = ACIRC THEN "u00E2" ELSE c

\* str.lower()
LowerStr(t) == [i \in 1..Len(t) |-> LowerChar(t[i])]

\* n copies of character c
Rep(c, n) == [i \in 1..n |-> c]

Max(a, b) == IF a >= b THEN a ELSE b
Min(a, b) == IF a <= b THEN a ELSE b
Abs(a) == IF a >= 0 THEN a ELSE -a

\* seq[:n] for n >= 0
Take(seq, n) == SubSeq(seq, 1, Min(n, Len(seq)))

\* The members of a set of integers, in increasing order.
SortedSeq(P) ==
    [k \in 1..Cardinality(P) |->
        CHOOSE e \in P : Cardinality({d \in P : d < e}) = k - 1]

\* The positions of text that belong to a separator of
\* re.split(r"(?<=[.!?])\s+", text): a maximal run of whitespace that directly
\* follows one of . ! ?
SeparatorPositions(text) ==
    LET n == Len(text)
        InSep[i \in 1..n] ==
            /\ text[i] \in WhiteSpace
            /\ \/ (i > 1 /\ text[i - 1] \in {".", "!", "?"})
               \/ (i > 1 /\ InSep[i - 1])
    IN  {i \in 1..n : InSep[i]}

\* _split_sentences: the parts between separators, each stripped, the empty
\* ones dropped.
SplitSentences(text) ==
    IF text = <<>> THEN <<>>
    ELSE Bind(SeparatorPositions(text), LAMBDA Sep :
         Bind(SortedSeq({i \in (1..Len(text)) \ Sep : i = 1 \/ (i - 1) \in Sep}),
              LAMBDA starts :
         Bind(SortedSeq({e \in (1..Len(text)) \ Sep : e = Len(text) \/ (e + 1) \in Sep}),
              LAMBDA ends :
             SelectSeq(List([k \in 1..Len(starts) |->
                                Strip(SubSeq(text, starts[k], ends[k]), WhiteSpace)]),
                       LAMBDA q : q # <<>>))))

SentenceCap == 250
PeakLen == 180
PeakSpan == 200
KeywordWeight == 2

\* The score of one sentence, times PeakSpan (the code divides the length
\* bonus by 200.0; the order of the scores is the same).
Score(sentence, keyset) ==
    LET low == LowerStr(sentence)
        hits == Cardinality({k \in keyset : k # <<>> /\ Contains(low, k)})
    IN  KeywordWeight * PeakSpan * hits
        + Max(0, PeakSpan - Abs(Len(sentence) - PeakLen))

\* The merged run, given the place posL[i] of left[i] and posR[j] of right[j].
Place(left, right, posL, posR) ==
    List([p \in 1..(Len(left) + Len(right)) |->
            IF \E i \in 1..Len(left) : posL[i] = p
            THEN left[CHOOSE i \in 1..Len(left) : posL[i] = p]
            ELSE right[CHOOSE j \in 1..Len(right) : posR[j] = p]])

\* A merge that lets the element of the right run win a tie.
MergeDesc_RightWinsTies(left, right, score) ==
    Place(left, right,
          List([i \in 1..Len(left) |->
              i + Cardinality({j \in 1..Len(right) : score[right[j]] >= score[left[i]]})]),
          List([j \in 1..Len(right) |->
              j + Cardinality({i \in 1..Len(left) : score[left[i]] > score[right[j]]})]))

\* Merging two runs sorted by descending score; of equal scores the element
\* of the left run comes first.
MergeDesc(left, right, score) ==
    Place(left, right,
          List([i \in 1..Len(left) |->
              i + Cardinality({j \in 1..Len(right) : score[right[j]] > score[left[i]]})]),
          List([j \in 1..Len(right) |->
              j + Cardinality({i \in 1..Len(left) : score[left[i]] >= score[right[j]]})]))

\* list.sort(key=score, reverse=True) on the indices lo..hi: a stable merge
\* sort, so of two equal scores the earlier index stays first.
RECURSIVE SortDescStable(_, _, _)
SortDescStable(lo, hi, score) ==
    IF lo > hi THEN <<>>
    ELSE IF lo = hi THEN <<lo>>
    ELSE LET mid == (lo + hi) \div 2
         IN  MergeDesc(SortDescStable(lo, mid, score),
                       SortDescStable(mid + 1, hi, score), score)

\* _extractive_summary, from the scored candidates on
PickKeyPoints(cand, score, max_sentences) ==
    Bind(SortDescStable(1, Len(cand), score), LAMBDA scored :
        Bind(SortedSeq(Range(Take(scored, max_sentences))), LAMBDA picks :
            Bind(List([k \in 1..Len(picks) |-> cand[picks[k]]]), LAMBDA key_points :
                [summary |-> Strip(Join(<<SP>>, Take(key_points, 3)), WhiteSpace),
                 key_points |-> key_points])))

\* _extractive_summary
ExtractiveSummary(text, keywords, max_sentences) ==
    Bind(SplitSentences(text), LAMBDA sentences :
        IF sentences = <<>>
        THEN [summary |-> <<>>, key_points |-> <<>>]
        ELSE Bind(Take(sentences, SentenceCap), LAMBDA cand :
             Bind({LowerStr(keywords[i]) : i \in 1..Len(keywords)}, LAMBDA keyset :
             Bind(List([i \in 1..Len(cand) |-> Score(cand[i], keyset)]), LAMBDA score :
                 PickKeyPoints(cand, score, max_sentences)))))

(***************************************************************************)
(* SpecSum: _extractive_summary on bounded texts                           *)
(***************************************************************************)
MaxSumSentences == 3
SummaryMax == 6
SumPicks == {0, 1, 2, SummaryMax}

SumPieces ==
    {<<"k", ".">>,
     <<NL, "z", "!">>,
     <<"K", ".", "x", SP, "x", "?">>,
     Rep("x", PeakLen - 1) \o <<".">>,
     Rep("x", 2 * PeakSpan)}

SumKeywords == {<<>>, <<<<"K">>, <<>>, <<"x">>>>}

\* More than SentenceCap sentences: the best sentence is the last one.
LongText ==
    Join(<<SP>>, [i \in 1..(SentenceCap + 2) |->
                     IF i = SentenceCap + 2 THEN <<"k", SP, "k", ".">>
                     ELSE IF i % 100 = 7 THEN <<"a", "b", ".">>
                     ELSE <<"a", ".">>])

SumTexts == {Join(<<SP>>, ps) : ps \in SeqsUpTo(SumPieces, MaxSumSentences)}

InitSum ==
    /\ pc = "sum"
    /\ arg \in {[fn |-> "extractive_summary", text |-> t, keywords |-> k,
                 max_sentences |-> m] :
                    t \in SumTexts, k \in SumKeywords, m \in SumPicks}
               \cup {[fn |-> "extractive_summary", text |-> LongText,
                      keywords |-> k, max_sentences |-> SummaryMax] : k \in SumKeywords}
    /\ ret = Idle
    /\ BatchIdle

CallExtractiveSummary ==
    /\ pc = "sum"
    /\ pc' = "sum_done"
    /\ ret' = ExtractiveSummary(arg.text, arg.keywords, arg.max_sentences)
    /\ UNCHANGED <<arg, urls, idx, results, errors, sleeps, SESSION, NLP, inits>>

NextSum == CallExtractiveSummary

SpecSum == InitSum /\ [][NextSum]_vars

\* The indices of the n best of score's indices: index i is among them when
\* fewer than n indices are better, j being better than i when its score is
\* higher, or equal with j earlier.
TopByRank(score, n) ==
    {i \in DOMAIN score :
        Cardinality({j \in DOMAIN score :
            score[j] > score[i] \/ (score[j] = score[i] /\ j < i)}) < n}

SumCandidates == Take(SplitSentences(arg.text), SentenceCap)

SumScores(cand) ==
    Bind({LowerStr(arg.keywords[i]) : i \in 1..Len(arg.keywords)}, LAMBDA keyset :
        List([i \in 1..Len(cand) |-> Score(cand[i], keyset)]))

\* C10: key_points are the max_sentences highest-scoring of the first 250
\* sentences (of equal scores the earlier sentence), in document order; summary
\* is the first 3 key points joined by single spaces; an empty text gives
\* ("", []).
C10_SummaryIsTopSentencesInOrder ==
    pc = "sum_done" =>
        Bind(SumCandidates, LAMBDA cand :
        Bind(SumScores(cand), LAMBDA score :
        Bind(SortedSeq(TopByRank(score, arg.max_sentences)), LAMBDA top :
            /\ ret.key_points = [k \in 1..Len(top) |-> cand[top[k]]]
            /\ Len(ret.key_points) = Min(arg.max_sentences, Len(cand))
            /\ ret.summary = Join(<<SP>>, Take(ret.key_points, 3))
            /\ arg.text = <<>> => ret = [summary |-> <<>>, key_points |-> <<>>])))

\* A text of more than 250 sentences, of which 6 are picked, where a tie
\* between a picked and an unpicked sentence is decided for the earlier one.
C10_Witness ==
    /\ pc = "sum_done"
    /\ Len(SplitSentences(arg.text)) > SentenceCap
    /\ Len(ret.key_points) = SummaryMax
    /\ Bind(SumScores(SumCandidates), LAMBDA score :
       Bind(TopByRank(score, arg.max_sentences), LAMBDA top :
           \E i \in top : \E j \in DOMAIN score \ top : score[i] = score[j] /\ i < j))

(***************************************************************************)
(* Keywords                                                                *)
(***************************************************************************)
\* The maximal runs of characters of class C in s, in order.
Runs(s, C) ==
    Bind(SortedSeq({i \in 1..Len(s) : s[i] \in C /\ (i = 1 \/ s[i - 1] \notin C)}),
         LAMBDA starts :
    Bind(SortedSeq({e \in 1..Len(s) : s[e] \in C /\ (e = Len(s) \/ s[e + 1] \notin C)}),
         LAMBDA ends :
        List([k \in 1..Len(starts) |-> SubSeq(s, starts[k], ends[k])])))

STOPWORDS ==
    {<<"t", "h", "e">>, <<"a">>, <<"a", "n">>, <<"a", "n", "d">>, <<"o", "r">>,
     <<"b", "u", "t">>, <<"i", "f">>, <<"t", "h", "e", "n">>, <<"e", "l", "s", "e">>,
     <<"f", "o", "r">>, <<"t", "o">>, <<"o", "f">>, <<"i", "n">>, <<"o", "n">>,
     <<"a", "t">>, <<"b", "y">>, <<"f", "r", "o", "m">>, <<"w", "i", "t", "h">>,
     <<"w", "i", "t", "h", "o", "u", "t">>, <<"t", "h", "i", "s">>,
     <<"t", "h", "a", "t">>, <<"t", "h", "e", "s", "e">>, <<"t", "h", "o", "s", "e">>,
     <<"i", "s">>, <<"a", "r", "e">>, <<"w", "a", "s">>, <<"w", "e", "r", "e">>,
     <<"b", "e">>, <<"b", "e", "e", "n">>, <<"b", "e", "i", "n", "g">>, <<"a", "s">>,
     <<"i", "t">>, <<"i", "t", "s">>, <<"i", "n", "t", "o">>, <<"c", "a", "n">>,
     <<"m", "a", "y">>, <<"m", "u", "s", "t">>, <<"s", "h", "o", "u", "l", "d">>,
     <<"w", "i", "l", "l">>, <<"w", "o", "u", "l", "d">>, <<"c", "o", "u", "l", "d">>,
     <<"a", "b", "o", "u", "t">>, <<"o", "v", "e", "r">>, <<"u", "n", "d", "e", "r">>,
     <<"t", "h", "a", "n">>, <<"a", "l", "s", "o">>, <<"s", "u", "c", "h">>,
     <<"m", "o", "r", "e">>, <<"m", "o", "s", "t">>, <<"l", "e", "s", "s">>,
     <<"v", "e", "r", "y">>, <<"n", "o", "t">>, <<"n", "o">>, <<"y", "e", "s">>,
     <<"y", "o", "u">>, <<"y", "o", "u", "r">>, <<"w", "e">>, <<"o", "u", "r">>,
     <<"t", "h", "e", "y">>, <<"t", "h", "e", "i", "r">>, <<"i">>, <<"m", "e">>,
     <<"m", "y">>, <<"t", "h", "e", "m">>, <<"u", "s">>}

TopK == 12

\* re.findall(r"[A-Za-z][A-Za-z\-]{2,}", text.lower()): in every maximal run of
\* letters and hyphens the match starts at the first letter and takes the rest
\* of the run, when that is at least 3 characters.
FindWords(text) ==
    Bind(Runs(LowerStr(text), Range(LowerLetters) \cup {"-"}), LAMBDA runs :
        SelectSeq(List([k \in 1..Len(runs) |-> LStrip(runs[k], {"-"})]),
                  LAMBDA w : Len(w) >= 3))

\* A fallback that counts the stop-words too.
FrequencyKeywords_CountsStopWords(text, top_k) ==
    Bind(FindWords(text), LAMBDA words :
    Bind(SelectSeq(List([i \in 1..Len(words) |-> i]),
                   LAMBDA i : \A j \in 1..(i - 1) : words[j] # words[i]),
         LAMBDA first :
    Bind(List([k \in 1..Len(first) |->
                  Cardinality({j \in 1..Len(words) : words[j] = words[first[k]]})]),
         LAMBDA freq :
    Bind(SortDescStable(1, Len(first), freq), LAMBDA order :
        Take(List([k \in 1..Len(order) |-> words[first[order[k]]]]), top_k)))))

\* The fallback of _basic_keywords: the words that are no stop-words, by
\* descending frequency; sorted() is stable and the dict keeps the order of
\* first insertion, so of equal counts the word seen first comes first.
FrequencyKeywords(text, top_k) ==
    Bind(SelectSeq(FindWords(text), LAMBDA w : w \notin STOPWORDS), LAMBDA words :
    Bind(SelectSeq(List([i \in 1..Len(words) |-> i]),
                   LAMBDA i : \A j \in 1..(i - 1) : words[j] # words[i]),
         LAMBDA first :
    Bind(List([k \in 1..Len(first) |->
                  Cardinality({j \in 1..Len(words) : words[j] = words[first[k]]})]),
         LAMBDA freq :
    Bind(SortDescStable(1, Len(first), freq), LAMBDA order :
        Take(List([k \in 1..Len(order) |-> words[first[order[k]]]]), top_k)))))

\* What yake's extract_keywords returns is the library's business: a list of
\* (keyword, score) pairs.
YakeOutputs ==
    {<<>>,
     <<[k |-> <<"d", "a", "t", "e">>, score |-> 2], [k |-> <<"T", "a", "r", "i", "f", "f">>, score |-> 1]>>}

\* _basic_keywords.  yake: "absent" (the import failed), "raises" (the
\* extractor raised), or "ok" with yake_out what it returned.
BasicKeywords(text, top_k, yake, yake_out) ==
    IF text = <<>> THEN <<>>
    ELSE IF yake = "ok"
    THEN Bind(List([i \in 1..Len(yake_out) |-> -yake_out[i].score]), LAMBDA neg :
         Bind(SortDescStable(1, Len(yake_out), neg), LAMBDA order :
             Take(List([i \in 1..Len(order) |-> yake_out[order[i]].k]), top_k)))
    ELSE FrequencyKeywords(text, top_k)

(***************************************************************************)
(* Regular expressions of the parsers                                      *)
(***************************************************************************)
\* \w, among the characters of the model
WordChars == Letters \cup Digits \cup {"_", ACIRC, "u00E2", IDIAE, CJK}

\* s[i:i+len(lit)] == lit
MatchAt(s, i, lit) ==
    /\ i >= 1
    /\ i + Len(lit) - 1 <= Len(s)
    /\ SubSeq(s, i, i + Len(lit) - 1) = lit

\* The first position >= i of s that holds no whitespace (Len(s) + 1 if none).
SkipWs(s, i) ==
    IF \E j \in i..Len(s) : s[j] \notin WhiteSpace
    THEN CHOOSE j \in i..Len(s) :
            s[j] \notin WhiteSpace /\ \A k \in i..(j - 1) : s[k] \in WhiteSpace
    ELSE Len(s) + 1

\* The number of digits of the maximal run of digits of s that starts at i.
DigitRun(s, i) ==
    IF \E j \in i..(Len(s) + 1) : (j > Len(s) \/ s[j] \notin Digits)
    THEN (CHOOSE j \in i..(Len(s) + 1) :
            /\ (j > Len(s) \/ s[j] \notin Digits)
            /\ \A k \in i..(j - 1) : s[k] \in Digits) - i
    ELSE 0

\* re.search(r"CSMS\s*#\s*([0-9]+)", title, re.IGNORECASE): group 1 of the
\* leftmost match, <<>> when there is none.
CsmsNumber(title) ==
    LET low == LowerStr(title)
        Hash(i) == SkipWs(title, i + 4)
        Num(i) == SkipWs(title, Hash(i) + 1)
        Matches(i) ==
            /\ MatchAt(low, i, <<"c", "s", "m", "s">>)
            /\ Hash(i) <= Len(title) /\ title[Hash(i)] = "#"
            /\ DigitRun(title, Num(i)) >= 1
        found == {i \in 1..Len(title) : Matches(i)}
    IN  IF found = {} THEN <<>>
        ELSE Bind(CHOOSE i \in found : \A j \in found : i <= j, LAMBDA i :
                 SubSeq(title, Num(i), Num(i) + DigitRun(title, Num(i)) - 1))

MonthNames ==
    {<<"J", "a", "n", "u", "a", "r", "y">>, <<"F", "e", "b", "r", "u", "a", "r", "y">>,
     <<"M", "a", "r", "c", "h">>, <<"A", "p", "r", "i", "l">>, <<"M", "a", "y">>,
     <<"J", "u", "n", "e">>, <<"J", "u", "l", "y">>, <<"A", "u", "g", "u", "s", "t">>,
     <<"S", "e", "p", "t", "e", "m", "b", "e", "r">>,
     <<"O", "c", "t", "o", "b", "e", "r">>, <<"N", "o", "v", "e", "m", "b", "e", "r">>,
     <<"D", "e", "c", "e", "m", "b", "e", "r">>}

MonthAbbrs ==
    {<<"J", "a", "n">>, <<"F", "e", "b">>, <<"M", "a", "r">>, <<"A", "p", "r">>,
     <<"M", "a", "y">>, <<"J", "u", "n">>, <<"J", "u", "l">>, <<"A", "u", "g">>,
     <<"S", "e", "p">>, <<"O", "c", "t">>, <<"N", "o", "v">>, <<"D", "e", "c">>}

\* date_re of the fact-sheet parser:
\* \b(January|...|December)\s+\d{1,2},\s+\d{4}\b.  The end of the match that
\* starts at i, 0 when none starts there.
DateReEnd(s, i) ==
    IF ~(\E mo \in MonthNames : MatchAt(s, i, mo)) \/ (i > 1 /\ s[i - 1] \in WordChars)
    THEN 0
    ELSE Bind(i + Len(CHOOSE mo \in MonthNames : MatchAt(s, i, mo)), LAMBDA ws1 :
         Bind(SkipWs(s, ws1), LAMBDA day :
         Bind(DigitRun(s, day), LAMBDA nd :
             IF day = ws1 \/ nd = 0 THEN 0
             ELSE Bind(day + Min(nd, 2), LAMBDA comma0 :
                  \* \d{1,2} is greedy and backtracks: two digits, else one
                  Bind(IF comma0 <= Len(s) /\ s[comma0] = "," THEN comma0
                       ELSE IF nd >= 2 /\ s[day + 1] = "," THEN day + 1 ELSE 0,
                       LAMBDA comma :
                  IF comma = 0 THEN 0
                  ELSE Bind(SkipWs(s, comma + 1), LAMBDA year :
                       IF year = comma + 1 \/ DigitRun(s, year) < 4
                          \/ (year + 4 <= Len(s) /\ s[year + 4] \in WordChars)
                       THEN 0
                       ELSE year + 3))))))

\* date_re.search(txt): group 0 of the leftmost match, <<>> when there is none.
DateReSearch(txt) ==
    Bind({i \in 1..Len(txt) : DateReEnd(txt, i) > 0}, LAMBDA found :
        IF found = {} THEN <<>>
        ELSE Bind(CHOOSE i \in found : \A j \in found : i <= j, LAMBDA i :
                 SubSeq(txt, i, DateReEnd(txt, i))))

\* re.findall(r"\b(?:Jan|...|Dec|\d{1,2}|\d{4})\b", txt): a match starts and
\* ends at a word boundary, so it is a whole maximal run of word characters.
IsDay(w) == Len(w) \in {1, 2} /\ Range(w) \subseteq Digits
IsYear(w) == Len(w) = 4 /\ Range(w) \subseteq Digits

DateTokens(txt) ==
    SelectSeq(Runs(txt, WordChars),
              LAMBDA w : w \in MonthAbbrs \/ IsDay(w) \/ IsYear(w))

\* The document-library parser's date: the first month, day, year triple of
\* consecutive tokens, <<>> when there is none.
TokenDate(txt) ==
    Bind(DateTokens(txt), LAMBDA toks :
    Bind({i \in 1..(Len(toks) - 2) :
            toks[i] \in MonthAbbrs /\ IsDay(toks[i + 1]) /\ IsYear(toks[i + 2])},
         LAMBDA found :
        IF found = {} THEN <<>>
        ELSE Bind(CHOOSE i \in found : \A j \in found : i <= j, LAMBDA i :
                 toks[i] \o <<SP>> \o toks[i + 1] \o <<SP>> \o toks[i + 2])))

(***************************************************************************)
(* Links                                                                   *)
(*                                                                         *)
(* An href, like a URL, is a sequence of segments.  Its first segment      *)
(* tells what kind of reference it is.                                     *)
(***************************************************************************)
\* hrefs _extract_links skips: javascript:, mailto:, fragment-only
SkippedHeads == {"javascript:void(0)", "mailto:a@b.c", "#top"}
\* first segments that begin with the characters "http"
HttpHeads == {"https://www.", "httpx://e/z"}
\* first segments that carry a scheme: urljoin returns such an href as it is
SchemeHeads == HttpHeads \cup {"javascript:void(0)", "mailto:a@b.c"}
Hosts == {"cbp.gov", "CBP.GOV", "whitehouse.gov", "federalregister.gov"}

\* scheme and host of an absolute URL
Origin(base) ==
    IF Len(base) >= 2 /\ base[2] \in Hosts THEN SubSeq(base, 1, 2) ELSE <<base[1]>>

\* urllib.parse.urljoin(base, href), for hrefs that are empty, absolute,
\* fragment-only, or an absolute path ("/p")
UrlJoin(base, href) ==
    IF href = <<>> THEN base
    ELSE IF href[1] \in SchemeHeads THEN href
    ELSE IF base = <<>> \/ base[1] \notin SchemeHeads THEN href
    ELSE IF href[1] = "#top" THEN base \o href
    ELSE Origin(base) \o href

\* abs_url.startswith("http")
StartsWithHttp(u) == u # <<>> /\ u[1] \in HttpHeads

\* An absolute URL with the scheme http or https.
IsAbsoluteHttpUrl(u) == Len(u) >= 2 /\ u[1] = "https://www." /\ u[2] \in Hosts

\* The elements of seq in first-seen order, each once.
Dedupe(seq) ==
    Bind(SelectSeq(List([i \in 1..Len(seq) |-> i]),
                   LAMBDA i : \A j \in 1..(i - 1) : seq[j] # seq[i]),
         LAMBDA keep : List([k \in 1..Len(keep) |-> seq[keep[k]]]))

LinkLimit == 80

\* _extract_links; anchors are the href values of the container's <a>
\* elements in document order (<<>> for an anchor without href).  The loop
\* leaves once it holds limit links, so it keeps the first limit of them.
ExtractLinks(anchors, base_url, limit) ==
    Bind(SelectSeq(anchors, LAMBDA h : h # <<>> /\ h[1] \notin SkippedHeads),
         LAMBDA hrefs :
        Dedupe(Take(SelectSeq(List([i \in 1..Len(hrefs) |->
                                       UrlJoin(base_url, hrefs[i])]),
                              StartsWithHttp), limit)))

(***************************************************************************)
(* Adapter parsers                                                         *)
(*                                                                         *)
(* A fetched listing is the sequence of its repeated blocks (story <div>,  *)
(* result <li>, API result).  A block is a record:                         *)
(*   anchor  the title link the parser selects exists                      *)
(*   title   the link's text, a.get_text(" ", strip=True)                  *)
(*   href    the link's href                                               *)
(*   date    the text of the date element, <<>> if there is none           *)
(*   rest    the block's remaining text                                    *)
(***************************************************************************)
\* block.get_text(" ", strip=True): the non-empty pieces joined by spaces
BlockText(it) ==
    Join(<<SP>>, SelectSeq(<<it.title, it.date, it.rest>>, LAMBDA t : t # <<>>))

\* _parse_cbp_csms_announcements
ParseCbpCsmsAnnouncements(blocks) ==
    Bind(SelectSeq(blocks, LAMBDA it : it.anchor), LAMBDA stories :
        List([i \in 1..Len(stories) |->
            Bind(CleanText(stories[i].title), LAMBDA title :
                [csms_number |-> CsmsNumber(title),
                 title |-> title,
                 published |-> CleanText(stories[i].date),
                 link |-> stories[i].href])]))

WhiteHouseBase == <<"https://www.", "whitehouse.gov", "/">>

\* The fact-sheet parser's date of one block: the <time> text, else the first
\* date_re match in the block's text.
FactSheetDate(it) ==
    IF CleanText(it.date) # <<>> THEN CleanText(it.date)
    ELSE DateReSearch(CleanText(BlockText(it)))

\* _parse_whitehouse_fact_sheets_search_results: a block without link, title
\* or date is passed over; the loop leaves once it holds top_n items.
ParseWhitehouseFactSheets(blocks, top_n) ==
    Bind(List([i \in 1..Len(blocks) |->
                  [date |-> IF blocks[i].anchor THEN FactSheetDate(blocks[i]) ELSE <<>>,
                   announcement |-> CleanText(blocks[i].title),
                   link |-> UrlJoin(WhiteHouseBase, blocks[i].href),
                   anchor |-> blocks[i].anchor]]),
         LAMBDA parsed :
    Bind(SelectSeq(parsed, LAMBDA x : x.anchor /\ x.announcement # <<>> /\ x.date # <<>>),
         LAMBDA kept :
        Take(List([i \in 1..Len(kept) |->
                      [date |-> kept[i].date, announcement |-> kept[i].announcement,
                       link |-> kept[i].link]]), top_n)))

\* _parse_cbp_documents_library_results
ParseCbpDocumentsLibrary(blocks, base_url, top_n) ==
    Bind(List([i \in 1..Len(blocks) |->
                  [date |-> IF blocks[i].anchor THEN TokenDate(BlockText(blocks[i]))
                            ELSE <<>>,
                   announcement |-> CleanText(blocks[i].title),
                   link |-> UrlJoin(base_url, blocks[i].href),
                   anchor |-> blocks[i].anchor]]),
         LAMBDA parsed :
    Bind(SelectSeq(parsed, LAMBDA x : x.anchor /\ x.announcement # <<>> /\ x.date # <<>>),
         LAMBDA kept :
        Take(List([i \in 1..Len(kept) |->
                      [date |-> kept[i].date, announcement |-> kept[i].announcement,
                       link |-> kept[i].link]]), top_n)))

\* _fetch_federalregister_top, after the request: the first top_n results of
\* the API's answer, of which those with a title and a date are kept.
FederalregisterItems(api_results, top_n) ==
    Bind(Take(api_results, top_n), LAMBDA firsts :
    Bind(List([i \in 1..Len(firsts) |->
                  [date |-> CleanText(firsts[i].date),
                   announcement |-> CleanText(firsts[i].title),
                   link |-> firsts[i].href]]),
         LAMBDA parsed :
        SelectSeq(parsed, LAMBDA x : x.announcement # <<>> /\ x.date # <<>>)))

TableHeader == <<"|", SP, "D", "a", "t", "e", SP, "|", SP, "A", "n", "n", "o", "u", "n", "c", "e", "m", "e", "n", "t", SP, "|">>
TableRule == <<"|", "-", "-", "-", "|", "-", "-", "-", "|">>

TableRow(it) ==
    <<"|", SP>> \o CleanText(it.date) \o <<SP, "|", SP>>
        \o CleanText(it.announcement) \o <<SP, "|">>

\* A table without the header and separator rows.
AsMarkdownTableDateAnnouncement_RowsOnly(items) ==
    Join(<<NL>>, List([i \in 1..Len(items) |-> TableRow(items[i])]))

\* _as_markdown_table_date_announcement
AsMarkdownTableDateAnnouncement(items) ==
    Join(<<NL>>, <<TableHeader, TableRule>>
                     \o List([i \in 1..Len(items) |-> TableRow(items[i])]))

(***************************************************************************)
(* The environment of one scrape_one call                                  *)
(*                                                                         *)
(*   playwright  sync_playwright is not None (the import succeeded)        *)
(*   render      the browser run completes (goto, wait_for_selector)       *)
(*   fetch       the HTTP request answers with a success status            *)
(*   yake        "absent" (import failed), "raises", or "ok"               *)
(*   yake_out    what yake's extractor returns when it is "ok"             *)
(*   spacy       "absent" (import failed), "nomodel" (spacy.load raises),  *)
(*               "raises" (the loaded model raises on the text), or "ok"   *)
(*   blocks      the repeated blocks of the listing an adapter fetches     *)
(*   doc         the document the generic path fetches                     *)
(***************************************************************************)
\* The round trip of _fix_mojibake, applied by _fetch_html_requests to the
\* whole document when the document holds a replacement character.
Recode(s) == DecodeUtf8Ignore(EncodeCp1252Ignore(s))

RecodeBlocks(blocks) ==
    IF \E i \in 1..Len(blocks) :
          REPL \in Range(blocks[i].title) \cup Range(blocks[i].date)
                       \cup Range(blocks[i].rest)
    THEN List([i \in 1..Len(blocks) |->
                 [anchor |-> blocks[i].anchor,
                  title |-> Strip(Recode(blocks[i].title), WhiteSpace),
                  href |-> blocks[i].href,
                  date |-> Strip(Recode(blocks[i].date), WhiteSpace),
                  rest |-> Strip(Recode(blocks[i].rest), WhiteSpace)]])
    ELSE blocks

\* A document: the text of <title> and of the first <h1>, the nodes the
\* selectors of _best_main_container find (in the selectors' order), <body>,
\* and the text of the whole document after _remove_noise.  A node has the
\* text it holds when selected, the text left after _strip_by_identifiers,
\* and the hrefs of the anchors left.
RecodeNode(n) ==
    [text |-> Strip(Recode(n.text), WhiteSpace),
     kept |-> Strip(Recode(n.kept), WhiteSpace),
     anchors |-> n.anchors]

DocHasRepl(doc) ==
    \/ REPL \in Range(doc.title_tag) \cup Range(doc.h1) \cup Range(doc.whole)
    \/ REPL \in Range(doc.body.text) \cup Range(doc.body.kept)
    \/ \E i \in 1..Len(doc.containers) :
          REPL \in Range(doc.containers[i].text) \cup Range(doc.containers[i].kept)

RecodeDoc(doc) ==
    IF DocHasRepl(doc)
    THEN [title_tag |-> Strip(Recode(doc.title_tag), WhiteSpace),
          h1 |-> Strip(Recode(doc.h1), WhiteSpace),
          containers |-> List([i \in 1..Len(doc.containers) |->
                                  RecodeNode(doc.containers[i])]),
          body |-> RecodeNode(doc.body),
          whole |-> Strip(Recode(doc.whole), WhiteSpace)]
    ELSE doc

(***************************************************************************)
(* Fetchers.  Each returns whether it raised, the message, what it         *)
(* fetched, the value of _SESSION afterwards, and the calls it made.       *)
(***************************************************************************)
\* requests accepts the URL (it has an http or https scheme)
IsFetchable(url) == url # <<>> /\ url[1] = "https://www."

\* _fetch_html_requests for a listing
FetchBlocksRequests(url, env, session) ==
    IF IsFetchable(url) /\ env.fetch
    THEN [raised |-> FALSE, error |-> "", blocks |-> RecodeBlocks(env.blocks),
          SESSION |-> "session", calls |-> <<"_fetch_html_requests", "_get_session">>]
    ELSE [raised |-> TRUE, error |-> "requests: the request failed", blocks |-> <<>>,
          SESSION |-> "session", calls |-> <<"_fetch_html_requests", "_get_session">>]

\* _fetch_html_requests for a document
FetchDocRequests(url, env, session) ==
    IF IsFetchable(url) /\ env.fetch
    THEN [raised |-> FALSE, error |-> "", doc |-> RecodeDoc(env.doc),
          SESSION |-> "session", calls |-> <<"_fetch_html_requests", "_get_session">>]
    ELSE [raised |-> TRUE, error |-> "requests: the request failed", doc |-> env.doc,
          SESSION |-> "session", calls |-> <<"_fetch_html_requests", "_get_session">>]

\* _fetch_cbp_csms_html: Playwright first, on any exception requests
FetchCbpCsmsHtml(env, session) ==
    IF env.playwright /\ env.render
    THEN [raised |-> FALSE, error |-> "", blocks |-> env.blocks, SESSION |-> session,
          calls |-> <<"_fetch_cbp_csms_html", "_fetch_html_playwright_wait">>]
    ELSE Bind(FetchBlocksRequests(CsmsUrl, env, session), LAMBDA r :
            [r EXCEPT !.calls =
                <<"_fetch_cbp_csms_html", "_fetch_html_playwright_wait">> \o r.calls])

\* _fetch_whitehouse_fact_sheets_search_html
FetchWhitehouseFactSheetsSearchHtml(env, session) ==
    Bind(FetchBlocksRequests(WhiteHouseBase, env, session), LAMBDA r :
        [r EXCEPT !.calls = <<"_fetch_whitehouse_fact_sheets_top",
                              "_fetch_whitehouse_fact_sheets_search_html">> \o r.calls])

\* _fetch_cbp_documents_library_search_html
FetchCbpDocumentsLibrarySearchHtml(env, session) ==
    IF ~env.playwright
    THEN [raised |-> TRUE,
          error |-> "Playwright is required for CBP documents-library search.",
          blocks |-> <<>>, SESSION |-> session,
          calls |-> <<"_fetch_cbp_documents_library_top",
                      "_fetch_cbp_documents_library_search_html">>]
    ELSE IF ~env.render
    THEN [raised |-> TRUE, error |-> "playwright: the browser run failed",
          blocks |-> <<>>, SESSION |-> session,
          calls |-> <<"_fetch_cbp_documents_library_top",
                      "_fetch_cbp_documents_library_search_html">>]
    ELSE [raised |-> FALSE, error |-> "", blocks |-> env.blocks, SESSION |-> session,
          calls |-> <<"_fetch_cbp_documents_library_top",
                      "_fetch_cbp_documents_library_search_html">>]

\* _fetch_federalregister_top, the request: the API's answer is JSON, which
\* the code reads as it is
FetchFederalregisterResults(env, session) ==
    IF env.fetch
    THEN [raised |-> FALSE, error |-> "", blocks |-> env.blocks, SESSION |-> "session",
          calls |-> <<"_fetch_federalregister_top", "_get_session">>]
    ELSE [raised |-> TRUE, error |-> "requests: the request failed", blocks |-> <<>>,
          SESSION |-> "session",
          calls |-> <<"_fetch_federalregister_top", "_get_session">>]

(***************************************************************************)
(* Generic extraction                                                      *)
(***************************************************************************)
\* _extract_title
ExtractTitle(doc) ==
    IF Strip(doc.title_tag, WhiteSpace) # <<>>
    THEN CleanText(Strip(doc.title_tag, WhiteSpace))
    ELSE IF doc.h1 # <<>> THEN CleanText(doc.h1) ELSE <<>>

ContainerMin == 400

\* _best_main_container: the first selected node with more than 400
\* characters of text, else <body>
BestMainContainer(doc) ==
    Bind({i \in 1..Len(doc.containers) : Len(doc.containers[i].text) > ContainerMin},
         LAMBDA big :
        IF big = {} THEN doc.body
        ELSE doc.containers[CHOOSE i \in big : \A j \in big : i <= j])

\* _extract_main_text_and_links
ExtractMainTextAndLinks(doc, url) ==
    Bind(BestMainContainer(doc), LAMBDA container :
        [title |-> ExtractTitle(doc),
         main_text |-> Normalize(container.kept),
         links |-> ExtractLinks(container.anchors, url, LinkLimit)])

(***************************************************************************)
(* scrape_one                                                              *)
(***************************************************************************)
\* _spacy_entities: None without spaCy or without its model (and _NLP stays
\* None); the call of the model is outside the try, so what it raises leaves
\* the function.
SpacyEntities(env, nlp) ==
    IF env.spacy = "absent"
    THEN [raised |-> FALSE, error |-> "", entities |-> [by |-> "None"], NLP |-> nlp]
    ELSE IF nlp = "None" /\ env.spacy = "nomodel"
    THEN [raised |-> FALSE, error |-> "", entities |-> [by |-> "None"], NLP |-> "None"]
    ELSE IF env.spacy = "raises"
    THEN [raised |-> TRUE, error |-> "spacy: the model raised on the text",
          entities |-> [by |-> "None"], NLP |-> "model"]
    ELSE [raised |-> FALSE, error |-> "", entities |-> [by |-> "spacy"],
          NLP |-> "model"]

\* The predicates in the order scrape_one tests them: the path taken and the
\* predicates evaluated on the way.
Dispatch_FederalregisterFirst(url) ==
    IF IsFederalregisterSearch(url)
    THEN [path |-> "federalregister", evaluated |-> <<"_is_federalregister_search">>]
    ELSE IF IsCbpCsms(url)
    THEN [path |-> "csms",
          evaluated |-> <<"_is_federalregister_search", "_is_cbp_csms">>]
    ELSE IF IsWhitehouseFactSheets(url)
    THEN [path |-> "fact_sheets",
          evaluated |-> <<"_is_federalregister_search", "_is_cbp_csms",
                          "_is_whitehouse_fact_sheets">>]
    ELSE IF IsCbpDocumentsLibrary(url)
    THEN [path |-> "documents_library",
          evaluated |-> <<"_is_federalregister_search", "_is_cbp_csms",
                          "_is_whitehouse_fact_sheets", "_is_cbp_documents_library">>]
    ELSE [path |-> "generic",
          evaluated |-> <<"_is_federalregister_search", "_is_cbp_csms",
                          "_is_whitehouse_fact_sheets", "_is_cbp_documents_library">>]

Dispatch(url) ==
    IF IsCbpCsms(url)
    THEN [path |-> "csms", evaluated |-> <<"_is_cbp_csms">>]
    ELSE IF IsWhitehouseFactSheets(url)
    THEN [path |-> "fact_sheets",
          evaluated |-> <<"_is_cbp_csms", "_is_whitehouse_fact_sheets">>]
    ELSE IF IsCbpDocumentsLibrary(url)
    THEN [path |-> "documents_library",
          evaluated |-> <<"_is_cbp_csms", "_is_whitehouse_fact_sheets",
                          "_is_cbp_documents_library">>]
    ELSE IF IsFederalregisterSearch(url)
    THEN [path |-> "federalregister",
          evaluated |-> <<"_is_cbp_csms", "_is_whitehouse_fact_sheets",
                          "_is_cbp_documents_library", "_is_federalregister_search">>]
    ELSE [path |-> "generic",
          evaluated |-> <<"_is_cbp_csms", "_is_whitehouse_fact_sheets",
                          "_is_cbp_documents_library", "_is_federalregister_search">>]

TopN == 5
ShortText == 300

CsmsTitle == <<"C", "B", "P", SP, "C", "S", "M", "S", SP, "R", "e", "c", "e", "n", "t", SP, "M", "e", "s", "s", "a", "g", "e", "s">>
FactSheetsTitle == <<"W", "h", "i", "t", "e", SP, "H", "o", "u", "s", "e", SP, "F", "a", "c", "t", SP, "S", "h", "e", "e", "t", "s", SP, DASH, SP, "T", "a", "r", "i", "f", "f", SP, "(", "t", "o", "p", SP, "5", ")">>
DocLibTitle == <<"C", "B", "P", SP, "D", "o", "c", "u", "m", "e", "n", "t", "s", SP, "L", "i", "b", "r", "a", "r", "y", SP, DASH, SP, "t", "a", "r", "i", "f", "f", SP, "(", "t", "o", "p", SP, "5", ")">>
FederalregisterTitle == <<"F", "e", "d", "e", "r", "a", "l", SP, "R", "e", "g", "i", "s", "t", "e", "r", SP, DASH, SP, "T", "a", "r", "i", "f", "f", SP, "R", "a", "t", "e", "s", SP, "(", "t", "o", "p", SP, "5", SP, "n", "e", "w", "e", "s", "t", ")">>

\* What a call that raised leaves behind.
Raised(d, fetched, nlp, calls, analysed) ==
    [raised |-> TRUE, error |-> fetched.error, result |-> "none", path |-> d.path,
     evaluated |-> d.evaluated, ran |-> calls, analysed |-> analysed,
     SESSION |-> fetched.SESSION, NLP |-> nlp]

\* The common tail of every branch of scrape_one: keywords, summary,
\* entities, and the PageResult.
Analyse(url, d, fetched, calls, title, main_text, links, announcements, env, nlp) ==
    Bind(BasicKeywords(main_text, TopK, env.yake, env.yake_out), LAMBDA keywords :
    Bind(ExtractiveSummary(main_text, keywords, SummaryMax), LAMBDA sum :
    Bind(SpacyEntities(env, nlp), LAMBDA ent :
        IF ent.raised
        THEN Raised(d, [error |-> ent.error, SESSION |-> fetched.SESSION], ent.NLP,
                    calls \o <<"_basic_keywords", "_extractive_summary",
                               "_spacy_entities">>, main_text)
        ELSE [raised |-> FALSE, error |-> "", path |-> d.path,
              evaluated |-> d.evaluated,
              ran |-> calls \o <<"_basic_keywords", "_extractive_summary",
                                 "_spacy_entities">>
                        \o (IF ent.entities.by = "None" THEN <<"_regex_entities">>
                            ELSE <<>>),
              analysed |-> main_text,
              SESSION |-> fetched.SESSION, NLP |-> ent.NLP,
              result |->
                [url |-> url, title |-> title, main_text |-> main_text,
                 summary |-> sum.summary, key_points |-> sum.key_points,
                 entities |-> IF ent.entities.by = "None" THEN [by |-> "regex"]
                              ELSE ent.entities,
                 keywords |-> keywords,
                 extracted_links |-> links,
                 announcements |-> announcements]])))

\* The lines of the CSMS branch: "title - published" with an em dash, for
\* the announcements that have a title
CsmsLines(announcements) ==
    Bind(SelectSeq(announcements, LAMBDA a : Strip(a.title, WhiteSpace) # <<>>),
         LAMBDA titled :
        List([i \in 1..Len(titled) |->
            Strip(Strip(titled[i].title, WhiteSpace) \o <<SP, DASH, SP>>
                      \o Strip(titled[i].published, WhiteSpace), {SP, DASH})]))

\* x["link"] for x in items if x.get("link")
ItemLinks(items) ==
    Bind(SelectSeq(items, LAMBDA x : x.link # <<>>), LAMBDA linked :
        List([i \in 1..Len(linked) |-> linked[i].link]))

\* {"date": x["date"], "title": x["announcement"], "link": x["link"]}
ItemAnnouncements(items) ==
    List([i \in 1..Len(items) |->
        [date |-> items[i].date, title |-> items[i].announcement,
         link |-> items[i].link]])

\* The branches 2 to 4 after the fetch
TableBranch(url, d, fetched, calls, title, items, env, nlp) ==
    Analyse(url, d, fetched, calls \o <<"_as_markdown_table_date_announcement">>,
            title, AsMarkdownTableDateAnnouncement(items), ItemLinks(items),
            ItemAnnouncements(items), env, nlp)

ScrapeCsms(url, d, env, session, nlp) ==
    Bind(FetchCbpCsmsHtml(env, session), LAMBDA fetched :
        IF fetched.raised THEN Raised(d, fetched, nlp, fetched.calls, <<>>)
        ELSE Bind(ParseCbpCsmsAnnouncements(fetched.blocks), LAMBDA announcements :
                 Analyse(url, d, fetched,
                         fetched.calls \o <<"_parse_cbp_csms_announcements">>,
                         CsmsTitle,
                         Normalize(Join(<<NL>>, CsmsLines(announcements))),
                         ItemLinks(announcements), announcements, env, nlp)))

ScrapeFactSheets(url, d, env, session, nlp) ==
    Bind(FetchWhitehouseFactSheetsSearchHtml(env, session), LAMBDA fetched :
        IF fetched.raised THEN Raised(d, fetched, nlp, fetched.calls, <<>>)
        ELSE TableBranch(url, d, fetched,
                 fetched.calls \o <<"_parse_whitehouse_fact_sheets_search_results">>,
                 FactSheetsTitle, ParseWhitehouseFactSheets(fetched.blocks, TopN),
                 env, nlp))

ScrapeDocumentsLibrary(url, d, env, session, nlp) ==
    Bind(FetchCbpDocumentsLibrarySearchHtml(env, session), LAMBDA fetched :
        IF fetched.raised THEN Raised(d, fetched, nlp, fetched.calls, <<>>)
        ELSE TableBranch(url, d, fetched,
                 fetched.calls \o <<"_parse_cbp_documents_library_results">>,
                 DocLibTitle,
                 ParseCbpDocumentsLibrary(fetched.blocks, DocLibUrl, TopN),
                 env, nlp))

ScrapeFederalregister(url, d, env, session, nlp) ==
    Bind(FetchFederalregisterResults(env, session), LAMBDA fetched :
        IF fetched.raised THEN Raised(d, fetched, nlp, fetched.calls, <<>>)
        ELSE TableBranch(url, d, fetched, fetched.calls, FederalregisterTitle,
                 FederalregisterItems(fetched.blocks, TopN), env, nlp))

ScrapeGeneric(url, d, env, session, nlp) ==
    Bind(FetchDocRequests(url, env, session), LAMBDA fetched :
        IF fetched.raised THEN Raised(d, fetched, nlp, fetched.calls, <<>>)
        ELSE Bind(ExtractMainTextAndLinks(fetched.doc, url), LAMBDA ext :
                 Analyse(url, d, fetched,
                         fetched.calls \o <<"_extract_main_text_and_links">>,
                         ext.title,
                         IF Len(ext.main_text) < ShortText
                         THEN Normalize(fetched.doc.whole)
                         ELSE ext.main_text,
                         ext.links, <<>>, env, nlp)))

\* scrape_one(url), in environment env, with the globals _SESSION and _NLP
ScrapeOne(url, env, session, nlp) ==
    Bind(Dispatch(url), LAMBDA d :
        CASE d.path = "csms" -> ScrapeCsms(url, d, env, session, nlp)
          [] d.path = "fact_sheets" -> ScrapeFactSheets(url, d, env, session, nlp)
          [] d.path = "documents_library" ->
                ScrapeDocumentsLibrary(url, d, env, session, nlp)
          [] d.path = "federalregister" ->
                ScrapeFederalregister(url, d, env, session, nlp)
          [] OTHER -> ScrapeGeneric(url, d, env, session, nlp))

\* _get_session constructs a session: _SESSION is None.
ConstructsSession(session) == session = "None"

\* _spacy_entities calls spacy.load: spaCy is installed and _NLP is None.
LoadsModel(env, nlp) == env.spacy # "absent" /\ nlp = "None"

\* The counts of constructions and of load attempts after a scrape_one call
\* that ran as r, entered with the globals session and nlp.
Initialized(n, r, env, session, nlp) ==
    [sessions |-> n.sessions
                    + (IF "_get_session" \in Range(r.ran) /\ ConstructsSession(session)
                       THEN 1 ELSE 0),
     loads |-> n.loads
                 + (IF "_spacy_entities" \in Range(r.ran) /\ LoadsModel(env, nlp)
                    THEN 1 ELSE 0)]

(***************************************************************************)
(* SpecOne: one call of scrape_one                                         *)
(***************************************************************************)
FederalregisterUrl == <<"https://www.", "federalregister.gov", "/documents/search">>

\* URLs of every path: the four sources, a search URL of the Federal Register
\* that carries the messaging-service path in its query, a plain page, and a
\* text without scheme.
OneUrls ==
    {CsmsUrl,
     FactSheetsUrl \o <<"/">>,
     <<"https://www.", "CBP.GOV", "/documents-library">>,
     FederalregisterUrl,
     FederalregisterUrl \o <<"cbp.gov", "/trade/automated/cargo-systems-messaging-service">>,
     <<"https://www.", "whitehouse.gov">>,
     <<"/">>}

NoAnchorBlock ==
    [anchor |-> FALSE, title |-> <<>>, href |-> <<>>,
     date |-> <<"M", "a", "y", SP, "5", ",", SP, "2", "0", "2", "4">>, rest |-> <<>>]
UntitledBlock ==
    [anchor |-> TRUE, title |-> <<>>, href |-> <<"/p">>,
     date |-> <<"J", "a", "n", SP, "5", SP, "2", "0", "2", "4">>, rest |-> <<>>]
PlainBlock ==
    [anchor |-> TRUE, title |-> <<"T", "a", "r", "i", "f", "f", SP, "n", "o", "t", "i", "c", "e">>, href |-> <<"/p">>,
     date |-> <<"M", "a", "y", SP, "5", ",", SP, "2", "0", "2", "4">>, rest |-> <<>>]
NumberedBlock ==
    [anchor |-> TRUE, title |-> <<"C", "S", "M", "S", SP, "#", SP, "7", SP, "a", NL, SP, "b">>,
     href |-> <<"https://www.", "cbp.gov", "/q">>,
     date |-> <<>>, rest |-> <<"x", SP, "M", "a", "y", SP, "5", ",", SP, "2", "0", "2", "4">>]
MojibakeBlock ==
    [anchor |-> TRUE, title |-> <<"a", SP, REPL, SP, "b">>, href |-> <<"/p">>,
     date |-> <<"J", "a", "n", SP, "5", SP, "2", "0", "2", "4">>, rest |-> <<>>]
UndatedBlock ==
    [anchor |-> TRUE, title |-> <<"T", "a", "r", "i", "f", "f", SP, "n", "o", "t", "i", "c", "e">>, href |-> <<>>,
     date |-> <<>>, rest |-> <<>>]
MailtoBlock ==
    [anchor |-> TRUE, title |-> <<"D", "a", "t", "e", SP, "r", "u", "l", "e", ".">>, href |-> <<"mailto:a@b.c">>,
     date |-> <<"F", "e", "b", SP, "0", "7", SP, "2", "0", "2", "3">>, rest |-> <<>>]

Blocks ==
    {NoAnchorBlock, UntitledBlock, PlainBlock, NumberedBlock, MojibakeBlock,
     UndatedBlock, MailtoBlock}

MaxBlocks == 2

\* A listing with more blocks than top_n, some of them without date.
LongListing ==
    <<PlainBlock, UndatedBlock, MailtoBlock, PlainBlock, NumberedBlock, PlainBlock,
      MojibakeBlock, PlainBlock>>

Listings == SeqsUpTo(Blocks, MaxBlocks) \cup {LongListing}

EmptyNode == [text |-> <<>>, kept |-> <<>>, anchors |-> <<>>]

\* A short page: its text comes from the whole document.
ShortDoc ==
    [title_tag |-> <<"T", NL, SP, "a">>, h1 |-> <<"H">>, containers |-> <<>>,
     body |-> [text |-> <<"a", SP, "b">>, kept |-> <<"a", SP, "b">>,
               anchors |-> <<<<"/p">>, <<"/p">>, <<"#top">>, <<>>,
                             <<"https://www.", "cbp.gov", "/q">>, <<"httpx://e/z">>,
                             <<"mailto:a@b.c">>, <<"javascript:void(0)">>>>],
     whole |-> <<"T", SP, "a", SP, "H", ".", NL, SP, "a", SP, "b">>]

\* A page whose bytes were decoded wrongly: a replacement character, and the
\* three characters that cp1252 reads from the bytes of another.
MojibakeDoc ==
    [title_tag |-> <<>>, h1 |-> <<"H">>, containers |-> <<>>,
     body |-> [text |-> <<REPL, SP, "a", SP, IDIAE, IQUEST, HALF, SP, "b">>, kept |-> <<REPL, SP, "a", SP, IDIAE, IQUEST, HALF, SP, "b">>,
               anchors |-> <<>>],
     whole |-> <<"H", SP, REPL, SP, "a", SP, IDIAE, IQUEST, HALF, SP, "b">>]

\* A page with an article long enough to be kept.
ArticleText ==
    Rep("x", 150) \o <<".", SP>> \o Rep("y", 150) \o <<".", SP>> \o Rep("z", 150)
        \o <<"?">>

ArticleDoc ==
    [title_tag |-> <<>>, h1 |-> <<>>,
     containers |-> <<[text |-> <<"m", "e", "n", "u">>, kept |-> <<>>, anchors |-> <<>>],
                      [text |-> ArticleText, kept |-> ArticleText,
                       anchors |-> <<<<"/q">>, <<"/p">>, <<"/q">>>>]>>,
     body |-> [text |-> ArticleText, kept |-> ArticleText, anchors |-> <<<<"/p">>>>],
     whole |-> ArticleText]

\* A page with more links than the limit, and a main container that
\* _strip_by_identifiers empties.
NumLinks == 85

LinksDoc ==
    [title_tag |-> <<SP>>, h1 |-> <<>>,
     containers |-> <<[text |-> ArticleText, kept |-> <<"k", ".">>,
                       anchors |-> [i \in 1..NumLinks |-> <<"/p", ToString(i % 83)>>]]>>,
     body |-> EmptyNode,
     whole |-> <<"T", "a", "r", "i", "f", "f", SP, "d", "a", "t", "e", ".", SP, "k", ".">>]

Docs == {ShortDoc, MojibakeDoc, ArticleDoc, LinksDoc}

Yakes ==
    {[yake |-> "absent", yake_out |-> <<>>], [yake |-> "raises", yake_out |-> <<>>]}
        \cup {[yake |-> "ok", yake_out |-> y] : y \in YakeOutputs}

Spacies == {"absent", "nomodel", "raises", "ok"}

Env(playwright, render, fetch, y, spacy, blocks, doc) ==
    [playwright |-> playwright, render |-> render, fetch |-> fetch,
     yake |-> y.yake, yake_out |-> y.yake_out, spacy |-> spacy,
     blocks |-> blocks, doc |-> doc]

\* Every combination of the dependencies on one listing and one document;
\* every listing and every document with the browser and without it.
OneEnvs ==
    {Env(pw, rd, ft, y, sp, <<PlainBlock, MojibakeBlock>>, ShortDoc) :
        pw \in BOOLEAN, rd \in BOOLEAN, ft \in BOOLEAN, y \in Yakes, sp \in Spacies}
    \cup {Env(pw, TRUE, TRUE, [yake |-> "absent", yake_out |-> <<>>], "absent",
              blocks, doc) :
            pw \in BOOLEAN, blocks \in Listings, doc \in {ShortDoc}}
    \cup {Env(TRUE, TRUE, TRUE, [yake |-> "absent", yake_out |-> <<>>], "absent",
              <<>>, doc) : doc \in Docs}

InitOne ==
    /\ pc = "one"
    /\ arg \in {[fn |-> "scrape_one", url |-> u, env |-> e] : u \in OneUrls, e \in OneEnvs}
    /\ ret = Idle
    /\ BatchIdle

CallScrapeOne ==
    /\ pc = "one"
    /\ pc' = "one_done"
    /\ \E r \in {ScrapeOne(arg.url, arg.env, SESSION, NLP)} :
          /\ ret' = r
          /\ SESSION' = r.SESSION
          /\ NLP' = r.NLP
          /\ inits' = Initialized(inits, r, arg.env, SESSION, NLP)
    /\ UNCHANGED <<arg, urls, idx, results, errors, sleeps>>

NextOne == CallScrapeOne

SpecOne == InitOne /\ [][NextOne]_vars

(***************************************************************************)
(* Properties of one scrape_one call                                       *)
(***************************************************************************)
Returned == pc = "one_done" /\ ~ret.raised

\* C2: on the three selector-based adapter paths (messaging-service,
\* fact-sheet, document-library) no announcement of the returned PageResult
\* has an empty title.
C2_NoUntitledAnnouncement ==
    (Returned /\ ret.path \in {"csms", "fact_sheets", "documents_library"}) =>
        \A i \in 1..Len(ret.result.announcements) :
            ret.result.announcements[i].title # <<>>

\* C3: the main_text of every returned PageResult is whitespace-normalized:
\* no whitespace but the space, no two spaces in a row, none at either end.
C3_MainTextNormalized ==
    Returned => IsNormalized(ret.result.main_text)

\* C5: the extracted_links of every returned PageResult hold no duplicate,
\* at most 80 entries, and only absolute http(s) URLs.
C5_LinksDistinctCappedAbsolute ==
    Returned =>
        LET links == ret.result.extracted_links
        IN  /\ \A i, j \in 1..Len(links) : links[i] = links[j] => i = j
            /\ Len(links) <= LinkLimit
            /\ \A i \in 1..Len(links) : IsAbsoluteHttpUrl(links[i])

\* The network would serve the call: the URL can be requested, requests are
\* answered, and a browser that is installed renders the page.
NetworkServes ==
    /\ arg.env.fetch
    /\ arg.env.playwright => arg.env.render
    /\ ret.path = "generic" => IsFetchable(arg.url)

\* C6: when the network would serve the call, scrape_one does not raise,
\* whichever optional dependency (yake, spaCy or its model, Playwright) is
\* absent or raises.
C6_MissingDependencyNeverRaises ==
    (pc = "one_done" /\ NetworkServes) => ~ret.raised

PredicateOrder ==
    <<"_is_cbp_csms", "_is_whitehouse_fact_sheets", "_is_cbp_documents_library",
      "_is_federalregister_search">>

AnalysisStages ==
    {"_basic_keywords", "_extractive_summary", "_spacy_entities", "_regex_entities"}

\* The functions that belong to each path of scrape_one.
PathStages(path) ==
    AnalysisStages \cup
    CASE path = "csms" ->
           {"_fetch_cbp_csms_html", "_fetch_html_playwright_wait",
            "_fetch_html_requests", "_get_session", "_parse_cbp_csms_announcements"}
      [] path = "fact_sheets" ->
           {"_fetch_whitehouse_fact_sheets_top",
            "_fetch_whitehouse_fact_sheets_search_html", "_fetch_html_requests",
            "_get_session", "_parse_whitehouse_fact_sheets_search_results",
            "_as_markdown_table_date_announcement"}
      [] path = "documents_library" ->
           {"_fetch_cbp_documents_library_top",
            "_fetch_cbp_documents_library_search_html",
            "_parse_cbp_documents_library_results",
            "_as_markdown_table_date_announcement"}
      [] path = "federalregister" ->
           {"_fetch_federalregister_top", "_get_session",
            "_as_markdown_table_date_announcement"}
      [] OTHER ->
           {"_fetch_html_requests", "_get_session", "_extract_main_text_and_links"}

\* C7: scrape_one tests the predicates in the order messaging-service,
\* fact-sheet, document-library, federal-register, stops at the first that is
\* true and runs that path only, or the generic path when none is true; the
\* functions it calls are those of that path; the generic path returns no
\* announcements.
C7_FirstMatchingPathOnly ==
    pc = "one_done" =>
        LET p == Predicates(arg.url)
            first == IF p.csms THEN 1 ELSE IF p.wh THEN 2 ELSE IF p.doclib THEN 3 ELSE 4
        IN  /\ ret.path = "csms" <=> p.csms
            /\ ret.path = "fact_sheets" <=> (~p.csms /\ p.wh)
            /\ ret.path = "documents_library" <=> (~p.csms /\ ~p.wh /\ p.doclib)
            /\ ret.path = "federalregister"
                   <=> (~p.csms /\ ~p.wh /\ ~p.doclib /\ p.fr)
            /\ ret.path = "generic" <=> NumTrue(p) = 0
            /\ ret.evaluated = SubSeq(PredicateOrder, 1, first)
            /\ Range(ret.ran) \subseteq PathStages(ret.path)
            /\ (~ret.raised /\ ret.path = "generic") => ret.result.announcements = <<>>

\* A URL that both the messaging-service and the federal-register predicate
\* match, handled by the messaging-service path.
C7_Witness ==
    /\ Returned
    /\ IsCbpCsms(arg.url) /\ IsFederalregisterSearch(arg.url)
    /\ ret.path = "csms"
    /\ ret.result.announcements # <<>>

\* text.split(sep), for a separator of one character
SplitOn(text, sep) ==
    Bind(SortedSeq({i \in 1..Len(text) : text[i] = sep}), LAMBDA at :
        List([k \in 1..(Len(at) + 1) |->
            SubSeq(text, IF k = 1 THEN 1 ELSE at[k - 1] + 1,
                         IF k = Len(at) + 1 THEN Len(text) ELSE at[k] - 1)]))

\* The date of an announcement: "published" on the messaging-service path.
DateOf(a, path) == IF path = "csms" THEN a.published ELSE a.date

\* text is the two-column table of the announcements: the header row, the
\* separator row, then for each announcement in order the row
\* "| date | title |".
IsTableOf(text, announcements, path) ==
    Bind(SplitOn(text, NL), LAMBDA lines :
        /\ Len(lines) = 2 + Len(announcements)
        /\ lines[1] = TableHeader
        /\ lines[2] = TableRule
        /\ \A i \in 1..Len(announcements) :
              lines[i + 2] = <<"|", SP>> \o DateOf(announcements[i], path)
                                 \o <<SP, "|", SP>> \o announcements[i].title
                                 \o <<SP, "|">>)

\* C9 as stated: on the messaging-service, fact-sheet and document-library
\* paths the text given to the keyword, summary and entity stages is the
\* table of the path's announcements.
C9_TableOnFirstThreeAdapters ==
    (Returned /\ ret.path \in {"csms", "fact_sheets", "documents_library"}) =>
        IsTableOf(ret.analysed, ret.result.announcements, ret.path)

\* C9 as amended: the text given to the keyword, summary and entity stages is
\* the table of the path's announcements on the fact-sheet, document-library
\* and federal-register paths; on the messaging-service path it is not the
\* table but the normalized "title - published" lines of the titled
\* announcements.
C9_TableOnFactSheetLibraryRegister ==
    Returned =>
        /\ ret.analysed = ret.result.main_text
        /\ ret.path \in {"fact_sheets", "documents_library", "federalregister"} =>
              IsTableOf(ret.analysed, ret.result.announcements, ret.path)
        /\ ret.path = "csms" =>
              /\ ~IsTableOf(ret.analysed, ret.result.announcements, ret.path)
              /\ ret.analysed =
                    Normalize(Join(<<NL>>, CsmsLines(ret.result.announcements)))

\* The document-library path returning a table of several rows.
C9_Witness ==
    /\ Returned
    /\ ret.path = "documents_library"
    /\ Len(ret.result.announcements) >= 2
    /\ ret.result.announcements[1].title # ret.result.announcements[2].title

(***************************************************************************)
(* Spec: scrape_all over a list of URLs                                    *)
(*                                                                         *)
(* The installed packages are fixed for the run (the imports at the top of *)
(* the module run once); the network, the model file and the model's       *)
(* behaviour are chosen per URL.  arg.envs[i] is the environment in which  *)
(* scrape_one runs on urls[i].                                             *)
(***************************************************************************)
MaxUrls == 3

BatchUrls == {CsmsUrl, <<"https://www.", "whitehouse.gov">>}

\* Browser and spaCy installed, yake not; or yake installed and neither
\* browser nor spaCy.
Installs ==
    {[playwright |-> TRUE, yake |-> "absent", spacy |-> TRUE],
     [playwright |-> FALSE, yake |-> "ok", spacy |-> FALSE]}

\* What may happen to one call: all is well; the network is down; the model
\* file is missing; the model raises on the text.
CallEnvs(inst) ==
    LET y == [yake |-> inst.yake,
              yake_out |-> IF inst.yake = "ok"
                           THEN CHOOSE o \in YakeOutputs : o # <<>> ELSE <<>>]
        E(net, sp) == Env(inst.playwright, net, net, y, sp, <<PlainBlock>>, ShortDoc)
    IN  IF inst.spacy
        THEN {E(TRUE, "ok"), E(FALSE, "ok"), E(TRUE, "nomodel"), E(TRUE, "raises")}
        ELSE {E(TRUE, "absent"), E(FALSE, "absent")}

RECURSIVE Pairs(_, _, _)
Pairs(U, E, n) ==
    IF n = 0 THEN {<<>>}
    ELSE LET shorter == Pairs(U, E, n - 1)
         IN  shorter \cup {Append(s, [url |-> u, env |-> e]) : s \in shorter, u \in U, e \in E}

Init ==
    /\ pc = "loop"
    /\ \E inst \in Installs : \E run \in Pairs(BatchUrls, CallEnvs(inst), MaxUrls) :
          /\ urls = [i \in 1..Len(run) |-> run[i].url]
          /\ arg = [fn |-> "scrape_all", envs |-> [i \in 1..Len(run) |-> run[i].env]]
    /\ ret = Idle
    /\ idx = 0
    /\ results = <<>>
    /\ errors = <<>>
    /\ sleeps = 0
    /\ SESSION = "None"
    /\ NLP = "None"
    /\ inits = [sessions |-> 0, loads |-> 0]

\* A loop body that puts the newest error first.
Collect_NewestErrorFirst(res, errs, u, r) ==
    IF r.raised
    THEN [results |-> res, errors |-> <<[url |-> u, error |-> r.error]>> \o errs]
    ELSE [results |-> Append(res, r.result), errors |-> errs]

\* The try statement of the loop body: the result is appended to results, or
\* the exception is caught and recorded in errors.
Collect(res, errs, u, r) ==
    IF r.raised
    THEN [results |-> res, errors |-> Append(errs, [url |-> u, error |-> r.error])]
    ELSE [results |-> Append(res, r.result), errors |-> errs]

\* for u in urls: try: res = scrape_one(u) ... except Exception ...
ScrapeUrl ==
    /\ pc = "loop"
    /\ idx < Len(urls)
    /\ \E r \in {ScrapeOne(urls[idx + 1], arg.envs[idx + 1], SESSION, NLP)} :
          /\ \E c \in {Collect(results, errors, urls[idx + 1], r)} :
                /\ results' = c.results
                /\ errors' = c.errors
          /\ SESSION' = r.SESSION
          /\ NLP' = r.NLP
          /\ inits' = Initialized(inits, r, arg.envs[idx + 1], SESSION, NLP)
    /\ pc' = "sleep"
    /\ UNCHANGED <<arg, ret, urls, idx, sleeps>>

\* A pause between URLs only: none after the last one.
Sleep_NotAfterLast ==
    /\ pc = "sleep"
    /\ sleeps' = IF idx + 1 < Len(urls) THEN sleeps + 1 ELSE sleeps
    /\ idx' = idx + 1
    /\ pc' = "loop"
    /\ UNCHANGED <<arg, ret, urls, results, errors, SESSION, NLP, inits>>

\* time.sleep(DEFAULT_SLEEP), the last statement of the loop body
Sleep ==
    /\ pc = "sleep"
    /\ sleeps' = sleeps + 1
    /\ idx' = idx + 1
    /\ pc' = "loop"
    /\ UNCHANGED <<arg, ret, urls, results, errors, SESSION, NLP, inits>>

\* return {"count": len(results), "results": results, "errors": errors}
ReturnBatch ==
    /\ pc = "loop"
    /\ idx = Len(urls)
    /\ ret' = [fn |-> "scrape_all", count |-> Len(results), results |-> results,
               errors |-> errors]
    /\ pc' = "done"
    /\ UNCHANGED <<arg, urls, idx, results, errors, sleeps, SESSION, NLP, inits>>

Next == ScrapeUrl \/ Sleep \/ ReturnBatch

Spec == Init /\ [][Next]_vars

\* scrape_one raises on the URL at position i (whether it raises does not
\* depend on the globals)
Fails(i) == ScrapeOne(urls[i], arg.envs[i], "None", "None").raised

\* The number of URLs whose try statement has been left.
Tried == IF pc = "sleep" THEN idx + 1 ELSE idx

\* C1: every URL position tried so far has contributed exactly one entry, a
\* result if scrape_one returned and an error record with that URL if it
\* raised, each list in input order, whatever happened at earlier positions;
\* scrape_all returns only when every position has been tried, with
\* count == len(results) and len(results) + len(errors) == len(urls).
C1_BatchIsolation ==
    pc \in {"loop", "sleep", "done"} =>
        Bind(List([i \in 1..Tried |-> Fails(i)]), LAMBDA failed :
        Bind(SelectSeq(List([i \in 1..Tried |-> i]), LAMBDA i : ~failed[i]),
             LAMBDA returned :
        Bind(SelectSeq(List([i \in 1..Tried |-> i]), LAMBDA i : failed[i]),
             LAMBDA raised :
            /\ Len(results) = Len(returned)
            /\ \A k \in 1..Len(returned) : results[k].url = urls[returned[k]]
            /\ Len(errors) = Len(raised)
            /\ \A k \in 1..Len(raised) : errors[k].url = urls[raised[k]]
            /\ pc = "done" =>
                  /\ Tried = Len(urls)
                  /\ ret.results = results /\ ret.errors = errors
                  /\ ret.count = Len(ret.results)
                  /\ Len(ret.results) + Len(ret.errors) = Len(urls))))

\* Three URLs of which the second fails: count is 2 and the one error names
\* the second URL.
C1_Witness ==
    /\ pc = "done"
    /\ Len(urls) = 3
    /\ ~Fails(1) /\ Fails(2) /\ ~Fails(3)
    /\ urls[2] # urls[1] /\ urls[2] # urls[3]
    /\ ret.count = 2
    /\ Len(ret.errors) = 1 /\ ret.errors[1].url = urls[2]

(***************************************************************************)
(* Dates of the announcements                                              *)
(***************************************************************************)
\* What the adapter of a path emits from the listing it fetched when it may
\* emit up to n items.
Emitted(path, blocks, n) ==
    CASE path = "fact_sheets" ->
           ItemAnnouncements(ParseWhitehouseFactSheets(RecodeBlocks(blocks), n))
      [] path = "documents_library" ->
           ItemAnnouncements(ParseCbpDocumentsLibrary(blocks, DocLibUrl, n))
      [] path = "federalregister" ->
           ItemAnnouncements(FederalregisterItems(blocks, n))

\* C11: on the fact-sheet, document-library and federal-register paths every
\* announcement has a date, and an item skipped for want of a date does not
\* use up a place among the top_n: the output is the first top_n of the items
\* that can be emitted.  On the messaging-service path every story with a
\* title link is emitted, dated or not.
C11_DatedAndSkippedNotCounted ==
    Returned =>
        /\ ret.path \in {"fact_sheets", "documents_library", "federalregister"} =>
              /\ \A i \in 1..Len(ret.result.announcements) :
                    ret.result.announcements[i].date # <<>>
              /\ ret.result.announcements =
                    Take(Emitted(ret.path, arg.env.blocks, Len(arg.env.blocks) + TopN),
                         TopN)
        /\ ret.path = "csms" =>
              Len(ret.result.announcements) =
                  Len(SelectSeq(arg.env.blocks, LAMBDA b : b.anchor))

(***************************************************************************)
(* SpecKw: _basic_keywords without a working yake                          *)
(***************************************************************************)
MaxKwWords == 3

KwPieces ==
    {<<"c", "a", "t">>, <<"d", "o", "g">>, <<"C", "a", "t">>, <<"t", "h", "e">>, <<"-", "x", "-", "y", "-">>, <<"o", "f", "1", "b", "i", "r", "d">>}

KwExample == <<"c", "a", "t", SP, "c", "a", "t", SP, "d", "o", "g", SP, "c", "a", "t", SP, "b", "i", "r", "d", SP, "d", "o", "g">>

KwTexts == {Join(<<SP>>, ws) : ws \in SeqsUpTo(KwPieces, MaxKwWords)} \cup {KwExample}

KwTopKs == {0, 1, 2, TopK}

InitKw ==
    /\ pc = "kw"
    /\ arg \in {[fn |-> "_basic_keywords", text |-> t, top_k |-> k, yake |-> y] :
                   t \in KwTexts, k \in KwTopKs, y \in {"absent", "raises"}}
    /\ ret = Idle
    /\ BatchIdle

CallBasicKeywords ==
    /\ pc = "kw"
    /\ pc' = "kw_done"
    /\ ret' = [fn |-> "_basic_keywords",
               keywords |-> BasicKeywords(arg.text, arg.top_k, arg.yake, <<>>)]
    /\ UNCHANGED <<arg, urls, idx, results, errors, sleeps, SESSION, NLP, inits>>

NextKw == CallBasicKeywords

SpecKw == InitKw /\ [][NextKw]_vars

\* C12: without a working yake, _basic_keywords returns at most top_k terms,
\* all different, each of lowercase letters and hyphens, of length 3 or more
\* and no stop-word; they are the most frequent terms of the text, by
\* descending frequency and, for equal frequency, by first occurrence.
C12_FallbackKeywords ==
    pc = "kw_done" =>
        Bind(FindWords(arg.text), LAMBDA words :
            LET r == ret.keywords
                terms == Range(words) \ STOPWORDS
                Count(w) == Cardinality({i \in 1..Len(words) : words[i] = w})
                First(w) == CHOOSE i \in 1..Len(words) :
                               words[i] = w /\ \A j \in 1..(i - 1) : words[j] # w
                Before(v, w) ==
                    \/ Count(v) > Count(w)
                    \/ Count(v) = Count(w) /\ First(v) < First(w)
            IN  /\ Len(r) = Min(arg.top_k, Cardinality(terms))
                /\ \A i \in 1..Len(r) :
                      /\ r[i] \in terms
                      /\ Len(r[i]) >= 3
                      /\ Range(r[i]) \subseteq Range(LowerLetters) \cup {"-"}
                /\ \A i, j \in 1..Len(r) : i < j => Before(r[i], r[j])
                /\ \A i \in 1..Len(r) : \A w \in terms \ Range(r) : Before(r[i], w))

\* The text "cat cat dog cat bird dog": the first keyword is "cat", and
\* "dog" comes before "bird".
C12_Witness ==
    /\ pc = "kw_done"
    /\ arg.text = KwExample
    /\ arg.yake = "raises"
    /\ ret.keywords = <<<<"c", "a", "t">>, <<"d", "o", "g">>, <<"b", "i", "r", "d">>>>

(***************************************************************************)
(* Order of the batch                                                      *)
(***************************************************************************)
\* The number of URLs that have produced a result or an error record.
Entries == Len(results) + Len(errors)

\* Between two URLs and at the return every URL processed has had its pause;
\* while a URL waits for its pause it is the only one.
PausesFollowUrls ==
    /\ pc = "loop" => sleeps = idx /\ Entries = idx
    /\ pc = "sleep" => sleeps = idx /\ Entries = idx + 1
    /\ pc = "done" => sleeps = Len(urls) /\ Entries = Len(urls)

\* A step that records a URL records one, the next of the input, and only
\* when every earlier URL has had its pause; a step that pauses pauses once,
\* for the URL just recorded; the return comes after the last pause.
OneUrlThenOnePause ==
    /\ Entries' > Entries =>
          /\ Entries' = Entries + 1
          /\ sleeps = Entries /\ sleeps' = sleeps
          /\ \/ /\ Len(results') = Len(results) + 1
                /\ results'[Len(results')].url = urls[Entries + 1]
             \/ /\ Len(errors') = Len(errors) + 1
                /\ errors'[Len(errors')].url = urls[Entries + 1]
    /\ sleeps' # sleeps =>
          /\ sleeps' = sleeps + 1
          /\ Entries = sleeps + 1 /\ Entries' = Entries
    /\ (pc' = "done" /\ pc # "done") => sleeps = Len(urls)

\* C13: scrape_all takes the URLs one at a time in input order, the next one
\* only after the one before has its result or its error recorded and its
\* pause taken; exactly one pause follows every URL, failed or not, the last
\* one included, before the batch returns.
C13_OneAtATimeWithPause ==
    []PausesFollowUrls /\ [][OneUrlThenOnePause]_vars

\* A batch of three URLs whose last URL fails, returned after three pauses.
C13_Witness ==
    /\ pc = "done"
    /\ Len(urls) = 3
    /\ ~Fails(1) /\ Fails(3)
    /\ sleeps = 3
    /\ errors[Len(errors)].url = urls[3]

(***************************************************************************)
(* The process-wide handles                                                *)
(***************************************************************************)
\* The session is constructed at most once, and _SESSION holds it from then on.
SessionConstructedOnce ==
    /\ inits.sessions <= 1
    /\ inits.sessions = 1 <=> SESSION = "session"

\* C14: over the calls of one process each handle is initialized at most
\* once: one session is constructed and then reused, and spacy.load is
\* attempted at most once, whether or not the attempt succeeded.
C14_HandlesInitializedOnce ==
    SessionConstructedOnce /\ inits.loads <= 1

====
